---- MODULE Spec2Model ----
(***************************************************************************)
(* Medflash-AI: card export encodings (src/utils/anki.ts), the annotation  *)
(* renderer (src/utils/imageProcessing.ts) and the job orchestration of    *)
(* src/App.tsx with its collaborators (src/unnamed/part_001).              *)
(*                                                                         *)
(* Text is a sequence of tokens.  A token is one character ("a", TAB, LF,  *)
(* QUOTE, COMMA, " ") or a literal the program itself emits as a unit      *)
(* ("<br>", "medflash_", ...).  Numbers of box coordinates are counted in  *)
(* thousandths (1000 stands for 1.0), sizes of rasters are fractions       *)
(* <<numerator, denominator>> of pixels.                                   *)
(***************************************************************************)
EXTENDS Integers, Sequences, FiniteSets, TLC

VARIABLES
    cards,        \* App state: the card set (useState<Flashcard[]>)
    status,       \* App state: ProcessingStatus
    error,        \* App state: error message or null
    fileName,     \* App state: name of the selected file or null
    fileData,     \* App state: {base64, mimeType} or null
    analysis,     \* App state: DocumentAnalysis or null
    job,          \* position and locals of the running async handler
    download,     \* the artifact handed to the browser by the last export
    scene,        \* inputs and output of one cropAndAnnotateImage call
    env           \* the build: whether process.env.API_KEY is set

vars == <<cards, status, error, fileName, fileData, analysis, job, download, scene, env>>

appVars == <<status, error, fileName, fileData, analysis, job, env>>

----------------------------------------------------------------------------
(* Bounds of the model *)

MaxCards == 2      \* cards in an exported card set
MaxLen == 2        \* tokens in a front or back text
MaxTags == 1       \* tags of a card
MaxTick == 1       \* distinct readings of the clock during one export
Grid == 2          \* subdivisions of the unit interval for box coordinates

----------------------------------------------------------------------------
(* Characters *)

TAB == "\t"
LF == "\n"
QUOTE == "\""
COMMA == ","
SPACE == " "
BOM == "BOM"       \* the byte-order mark U+FEFF
IMG_OPEN == "<img src=\""
IMG_CLOSE == "\">"

\* media types, <<type with slash, subtype>>
JPEG == <<"image/", "jpeg">>
JPG == <<"image/", "jpg">>
PNG == <<"image/", "png">>
PNG_UPPER == <<"IMAGE/", "PNG">>
WEBP == <<"image/", "webp">>
PDF == <<"application/", "pdf">>
TEXT_PLAIN == <<"text/", "plain">>

null == [kind |-> "null"]
undefined == [kind |-> "undefined"]
noBox == <<>>      \* an absent (undefined) box; a box is a 4-tuple
pending == [kind |-> "pending"]
message(text) == [kind |-> "message", text |-> text]

----------------------------------------------------------------------------
(* String and array primitives of the language runtime *)

RECURSIVE ReplaceAll(_, _, _)
\* String.prototype.replace(/ch/g, rep)
ReplaceAll(s, ch, rep) ==
    IF s = <<>> THEN <<>>
    ELSE (IF Head(s) = ch THEN rep ELSE <<Head(s)>>) \o ReplaceAll(Tail(s), ch, rep)

RECURSIVE join(_, _)
\* Array.prototype.join(sep) on an array of texts
join(list, sep) ==
    IF list = <<>> THEN <<>>
    ELSE IF Len(list) = 1 THEN Head(list)
    ELSE Head(list) \o sep \o join(Tail(list), sep)

----------------------------------------------------------------------------
(* src/utils/anki.ts *)

escapeCsvField_noDoubling(field) == <<QUOTE>> \o field \o <<QUOTE>>

escapeCsvField(field) ==
    <<QUOTE>> \o ReplaceAll(field, QUOTE, <<QUOTE, QUOTE>>) \o <<QUOTE>>

csvRow(card, index) ==
    escapeCsvField(card.front) \o <<COMMA>> \o escapeCsvField(card.back)
        \o <<COMMA>> \o escapeCsvField(join(card.tags, <<SPACE>>))

downloadAnkiCsv(cs) ==
    [kind |-> "csv", content |-> <<BOM>> \o join([i \in 1..Len(cs) |-> csvRow(cs[i], i - 1)], <<LF>>), files |-> <<>>]

formatFieldForAnki(field) ==
    IF field = <<>> THEN <<>>
    ELSE ReplaceAll(ReplaceAll(field, LF, <<"<br>">>), TAB, <<SPACE, SPACE, SPACE, SPACE>>)

\* the back is written as it is
mobileRow_rawBack(card, index) ==
    formatFieldForAnki(card.front) \o <<TAB>> \o card.back
        \o <<TAB>> \o join(card.tags, <<SPACE>>)

mobileRow(card, index) ==
    formatFieldForAnki(card.front) \o <<TAB>> \o formatFieldForAnki(card.back)
        \o <<TAB>> \o join(card.tags, <<SPACE>>)

downloadMobileText(cs) ==
    [kind |-> "text", content |-> join([i \in 1..Len(cs) |-> mobileRow(cs[i], i - 1)], <<LF>>), files |-> <<>>]

markdownBlock(card, index) ==
    <<"### ">> \o card.front \o <<LF, LF, "**Answer:** ">> \o card.back
        \o <<LF, LF, "*Tags: ", "#">> \o join(card.tags, <<SPACE, "#">>)
        \o <<"*", LF, LF, "---", LF>>

downloadMarkdown(cs) ==
    [kind |-> "markdown", content |-> join([i \in 1..Len(cs) |-> markdownBlock(cs[i], i - 1)], <<LF>>), files |-> <<>>]

imgFileName_noIndex(now, index) == <<"medflash_", ToString(now), "_", ".png">>

\* `medflash_${Date.now()}_${index}.${imgExt}`
imgFileName(now, index) == <<"medflash_", ToString(now), "_", ToString(index), ".png">>

\* JSZip.file(name, data): adds the entry, replacing an entry of the same name
zipFile(zip, name, data) ==
    SelectSeq(zip, LAMBDA e : e.name # name) \o <<[name |-> name, data |-> data]>>

packRow_folderRef(card, index, nows) ==
    LET front == formatFieldForAnki(card.front)
        backContent == formatFieldForAnki(card.back)
        frontContent ==
            IF card.image # undefined
            THEN front \o <<"<br>", "<br>", IMG_OPEN, "media_files/">>
                       \o imgFileName(nows[index + 1], index) \o <<IMG_CLOSE>>
            ELSE front
    IN frontContent \o <<TAB>> \o backContent \o <<TAB>> \o join(card.tags, <<SPACE>>)

\* one row of tsvRows; nows[index + 1] is the reading of Date.now() in that callback
packRow(card, index, nows) ==
    LET front == formatFieldForAnki(card.front)
        backContent == formatFieldForAnki(card.back)
        frontContent ==
            IF card.image # undefined
            THEN front \o <<"<br>", "<br>", IMG_OPEN>>
                       \o imgFileName(nows[index + 1], index) \o <<IMG_CLOSE>>
            ELSE front
    IN frontContent \o <<TAB>> \o backContent \o <<TAB>> \o join(card.tags, <<SPACE>>)

RECURSIVE packMedia(_, _, _)
\* the zip.file calls made by the first n callbacks of cards.map
packMedia(cs, nows, n) ==
    IF n = 0 THEN <<>>
    ELSE IF cs[n].image # undefined
         THEN zipFile(packMedia(cs, nows, n - 1), imgFileName(nows[n], n - 1), cs[n].image.data)
         ELSE packMedia(cs, nows, n - 1)

README == <<"IMPORT INSTRUCTIONS (MEDFLASH AI)">>

downloadAnkiPack(cs, nows) ==
    LET tsvRows == [i \in 1..Len(cs) |-> packRow(cs[i], i - 1, nows)]
        tsvContent == join(tsvRows, <<LF>>)
        zip1 == packMedia(cs, nows, Len(cs))
        zip2 == zipFile(zip1, <<"import.txt">>, tsvContent)
        zip3 == zipFile(zip2, <<"README.txt">>, README)
    IN [kind |-> "zip", content |-> <<>>, files |-> zip3]

----------------------------------------------------------------------------
(* Arithmetic: fractions <<numerator, denominator>> with denominator > 0 *)

RECURSIVE GCD(_, _)
GCD(a, b) == IF b = 0 THEN a ELSE GCD(b, a % b)

Frac(n, d) == LET g == GCD(n, d) IN <<n \div g, d \div g>>

\* Math.floor and Math.ceil of the fraction n / d, d > 0
Floor(n, d) == n \div d
Ceil(n, d) == -((-n) \div d)

\* Math.max and Math.min
Max(a, b) == IF a > b THEN a ELSE b
Min(a, b) == IF a < b THEN a ELSE b

----------------------------------------------------------------------------
(* src/utils/imageProcessing.ts *)

MAX_DIMENSION == 1200

\* x * (maxDim / m) in IEEE-754 binary64 against the exact product, for the image sizes
\* that occur here: 1 when the double lies just above an integer product
\* (2129 * (1200 / 2129) = 1200.0000000000002), -1 when it lies just below
\* (2191 * (1200 / 2191) = 1199.9999999999998, 4236 * (2500 / 4236) =
\* 2499.9999999999995), 0 when it is that integer or the product is no integer
binary64(x, m, maxDim) ==
    CASE x = 2129 /\ m = 2129 /\ maxDim = 1200 -> 1
      [] x = 2191 /\ m = 2191 /\ maxDim = 1200 -> -1
      [] x = 4236 /\ m = 4236 /\ maxDim = 2500 -> -1
      [] OTHER -> 0

\* `x *= ratio` with ratio = maxDim / m: <<numerator, denominator, binary64 deviation>>
scaled(x, m, maxDim) == Frac(x * maxDim, m) \o <<binary64(x, m, maxDim)>>

\* the resize of cropAndAnnotateImage and processInputFile: <<targetW, targetH>>
resize(width, height, maxDim) ==
    IF width > maxDim \/ height > maxDim
    THEN IF width >= height    \* ratio = Math.min(maxDim / width, maxDim / height)
         THEN <<scaled(width, width, maxDim), scaled(height, width, maxDim)>>
         ELSE <<scaled(width, height, maxDim), scaled(height, height, maxDim)>>
    ELSE <<<<width, 1, 0>>, <<height, 1, 0>>>>

\* assignment to canvas.width / canvas.height: an unsigned long, the fraction is cut off
canvasSize(target) ==
    IF target[2] = 1 /\ target[3] < 0 THEN target[1] - 1 ELSE Floor(target[1], target[2])

\* `if (v > 1) v /= 1000` on one component, in thousandths
normalize(v) == IF v > 1000 THEN v \div 1000 ELSE v

getRect(box, targetW, targetH) ==
    LET ymin == normalize(box[1])
        xmin == normalize(box[2])
        ymax == normalize(box[3])
        xmax == normalize(box[4])
    IN [x |-> Floor(xmin * targetW[1], 1000 * targetW[2]),
        y |-> Floor(ymin * targetH[1], 1000 * targetH[2]),
        w |-> Ceil((xmax - xmin) * targetW[1], 1000 * targetW[2]),
        h |-> Ceil((ymax - ymin) * targetH[1], 1000 * targetH[2])]

\* rect.x + rect.w / 2 and rect.y + rect.h / 2, in half pixels
centerX2(rect) == 2 * rect.x + rect.w
centerY2(rect) == 2 * rect.y + rect.h

centerOf_corner(rect) == <<2 * rect.x, 2 * rect.y>>

centerOf(rect) == <<centerX2(rect), centerY2(rect)>>

\* Math.max(20, Math.min(w, h) * 0.7), in tenths of a pixel
badgeRadius10(labelRect) == Max(200, Min(labelRect.w, labelRect.h) * 7)

rejected == [kind |-> "rejected"]

\* the dot of the structure is drawn outside the `if (boundingBox)` block
cropAndAnnotateImage_dotOutsideLabelBlock(img, boundingBox, cleanPlateMimeType, cardIndex, structureBoundingBox, ctx) ==
    IF ~img.valid \/ ~ctx THEN rejected
    ELSE
    LET target == resize(img.width, img.height, MAX_DIMENSION)
        targetW == target[1]
        targetH == target[2]
        labelRect == getRect(boundingBox, targetW, targetH)
        structRect == getRect(structureBoundingBox, targetW, targetH)
        pointer == boundingBox # noBox /\ structureBoundingBox # noBox
    IN [kind |-> "dataurl",
        mimeType |-> cleanPlateMimeType,
        data |-> [base |-> img.id,
                  width |-> canvasSize(targetW),
                  height |-> canvasSize(targetH),
                  line |-> IF pointer
                           THEN [from |-> centerOf(labelRect), to |-> centerOf(structRect)]
                           ELSE undefined,
                  dot |-> IF structureBoundingBox # noBox
                          THEN [center |-> centerOf(structRect), radius10 |-> 40]
                          ELSE undefined,
                  badge |-> IF boundingBox # noBox
                            THEN [center |-> centerOf(labelRect),
                                  radius10 |-> badgeRadius10(labelRect),
                                  text |-> ToString(cardIndex)]
                            ELSE undefined]]

\* The canvas after the drawing calls of img.onload, encoded by canvas.toDataURL(mime).
\* img: the raster behind the data URL, [id, valid, width, height]; when it is not
\* valid, decoding fails (img.onerror).  ctx: whether canvas.getContext('2d')
\* returned a context.
cropAndAnnotateImage(img, boundingBox, cleanPlateMimeType, cardIndex, structureBoundingBox, ctx) ==
    IF ~img.valid \/ ~ctx THEN rejected
    ELSE
    LET target == resize(img.width, img.height, MAX_DIMENSION)
        targetW == target[1]
        targetH == target[2]
        labelRect == getRect(boundingBox, targetW, targetH)
        structRect == getRect(structureBoundingBox, targetW, targetH)
        pointer == boundingBox # noBox /\ structureBoundingBox # noBox
    IN [kind |-> "dataurl",
        mimeType |-> cleanPlateMimeType,
        data |-> [base |-> img.id,
                  width |-> canvasSize(targetW),
                  height |-> canvasSize(targetH),
                  line |-> IF pointer
                           THEN [from |-> centerOf(labelRect), to |-> centerOf(structRect)]
                           ELSE undefined,
                  dot |-> IF pointer
                          THEN [center |-> centerOf(structRect), radius10 |-> 40]
                          ELSE undefined,
                  badge |-> IF boundingBox # noBox
                            THEN [center |-> centerOf(labelRect),
                                  radius10 |-> badgeRadius10(labelRect),
                                  text |-> ToString(cardIndex)]
                            ELSE undefined]]

----------------------------------------------------------------------------
(* Readers of the export formats, as an importing tool applies them *)

RECURSIVE split(_, _)
\* the pieces of text between the occurrences of sep
split(text, sep) ==
    LET first == CHOOSE k \in 1..(Len(text) + 1) :
                    /\ k = Len(text) + 1 \/ text[k] = sep
                    /\ \A m \in 1..(k - 1) : text[m] # sep
    IN IF first = Len(text) + 1 THEN <<text>>
       ELSE <<SubSeq(text, 1, first - 1)>> \o split(SubSeq(text, first + 1, Len(text)), sep)

\* the records of a TSV file: its lines; an empty file has no record
tsvRecords(content) == IF content = <<>> THEN <<>> ELSE split(content, LF)

count(text, ch) == Cardinality({k \in 1..Len(text) : text[k] = ch})

RECURSIVE csvRead(_, _, _, _, _)
\* RFC 4180 reader over the tokens of text from position 1: mode is "start" (at the
\* beginning of a field), "plain" (in an unquoted field), "quoted" (in a quoted field)
\* or "quote" (after a double quote met in a quoted field)
csvRead(text, mode, field, rec, recs) ==
    IF text = <<>>
    THEN IF mode = "start" /\ rec = <<>> THEN recs ELSE Append(recs, Append(rec, field))
    ELSE LET c == Head(text)
             rest == Tail(text)
         IN CASE mode = "quoted" /\ c = QUOTE -> csvRead(rest, "quote", field, rec, recs)
              [] mode = "quoted" /\ c # QUOTE -> csvRead(rest, "quoted", Append(field, c), rec, recs)
              [] mode = "quote" /\ c = QUOTE -> csvRead(rest, "quoted", Append(field, c), rec, recs)
              [] mode = "start" /\ c = QUOTE -> csvRead(rest, "quoted", field, rec, recs)
              [] mode # "quoted" /\ c = COMMA -> csvRead(rest, "start", <<>>, Append(rec, field), recs)
              [] mode # "quoted" /\ c = LF ->
                    csvRead(rest, "start", <<>>, <<>>, Append(recs, Append(rec, field)))
              [] OTHER -> csvRead(rest, "plain", Append(field, c), rec, recs)

csvRecords(content) == csvRead(content, "start", <<>>, <<>>, <<>>)

RECURSIVE imgRefs(_)
\* the file names referenced by the image tags of text, in order of occurrence
imgRefs(text) ==
    IF text = <<>> THEN <<>>
    ELSE IF Head(text) = IMG_OPEN
         THEN LET rest == Tail(text)
                  close == CHOOSE k \in 1..(Len(rest) + 1) :
                              /\ k = Len(rest) + 1 \/ rest[k] = IMG_CLOSE
                              /\ \A m \in 1..(k - 1) : rest[m] # IMG_CLOSE
              IN <<SubSeq(rest, 1, close - 1)>> \o imgRefs(SubSeq(rest, close + 1, Len(rest)))
         ELSE imgRefs(Tail(text))

\* the archive: names of its entries, and the content stored under a name
entryNames(files) == {files[k].name : k \in 1..Len(files)}
entriesNamed(files, name) == {k \in 1..Len(files) : files[k].name = name}
isMedia(name) == name # <<>> /\ name[Len(name)] = ".png"
mediaEntries(files) == {k \in 1..Len(files) : isMedia(files[k].name)}
importTxt(files) == files[CHOOSE k \in 1..Len(files) : files[k].name = <<"import.txt">>].data

----------------------------------------------------------------------------
(* Card sets handed to the export functions *)

SeqsUpTo(S, n) == UNION {[1..k -> S] : k \in 0..n}

Alphabet == {"a", TAB, LF, QUOTE, COMMA}
Texts == SeqsUpTo(Alphabet, MaxLen)

TagAlphabet == {"t", TAB, LF, QUOTE}
TagLists == SeqsUpTo(SeqsUpTo(TagAlphabet, 1), MaxTags)

SampleRaster == [id |-> "orig", valid |-> TRUE, width |-> 1000, height |-> 1000]

\* a rendered image as handleGenerate stores it in a card
SampleImage ==
    cropAndAnnotateImage(SampleRaster, <<100000, 100000, 200000, 200000>>, JPEG, 1,
                         noBox, TRUE)

Flashcard(front, back, tags, image) ==
    [id |-> <<>>, front |-> front, back |-> back, tags |-> tags,
     boundingBox |-> noBox, structureBoundingBox |-> noBox, image |-> image]

\* one field varies over its values while the others hold a plain value
CardPool ==
    {Flashcard(t, <<"a">>, <<>>, undefined) : t \in Texts}
    \cup {Flashcard(<<"a">>, t, <<>>, undefined) : t \in SeqsUpTo(Alphabet, 1)}
    \cup {Flashcard(<<"a">>, <<"a">>, tl, undefined) : tl \in TagLists}
    \cup {Flashcard(t, <<"a">>, <<>>, SampleImage) : t \in SeqsUpTo(Alphabet, 1)}

\* `card-${Date.now()}-${index}`
cardId(now, index) == <<"card-", ToString(now), "-", ToString(index)>>

withIds(cs) == [i \in 1..Len(cs) |-> [cs[i] EXCEPT !.id = cardId(0, i - 1)]]

\* the cards that stand beside the varied one: plain, with an image, with CSV specials
Companions ==
    {Flashcard(<<"a">>, <<"a">>, <<>>, undefined),
     Flashcard(<<"a">>, <<"a">>, <<>>, SampleImage),
     Flashcard(<<QUOTE, COMMA>>, <<LF>>, <<<<"t">>>>, undefined)}

\* card sets of up to MaxCards cards: one card of the pool at any position among companions
CardSets ==
    {<<>>} \cup
    UNION {{withIds([i \in 1..k |-> IF i = p THEN c ELSE rest[i]]) :
               p \in 1..k, c \in CardPool, rest \in [1..k -> Companions]} : k \in 1..MaxCards}

\* successive readings of Date.now() never decrease
Clockings(n) == {nows \in [1..n -> 0..MaxTick] : \A i \in 1..(n - 1) : nows[i] <= nows[i + 1]}

noDownload == [kind |-> "none", content |-> <<>>, files |-> <<>>]
noScene == [kind |-> "none"]
idleJob ==
    [pc |-> "idle", file |-> null, data |-> null, analysis |-> null, generatedCards |-> <<>>,
     cleanOutcome |-> "none", cleanPlateData |-> null, tasks |-> <<>>, order |-> <<>>,
     analysisOutcome |-> "none", calls |-> <<>>,
     response |-> [kind |-> "none", hasList |-> FALSE, flashcards |-> <<>>]]

----------------------------------------------------------------------------
(* Specification of the exports: any card set, any export *)

InitExport ==
    /\ cards \in CardSets
    /\ status = "COMPLETE"
    /\ error = null
    /\ fileName = [stem |-> "notes", ext |-> ".pdf"]
    /\ fileData = null
    /\ analysis = null
    /\ job = idleJob
    /\ download = noDownload
    /\ scene = noScene
    /\ env = [apiKey |-> TRUE]

\* handleDownload of the first App revision
HandleDownloadCsv ==
    /\ fileName # null
    /\ download' = downloadAnkiCsv(cards)
    /\ UNCHANGED <<cards, appVars, scene>>

ExecuteDownloadText ==
    /\ fileName # null
    /\ download' = downloadMobileText(cards)
    /\ UNCHANGED <<cards, appVars, scene>>

ExecuteDownloadMarkdown ==
    /\ fileName # null
    /\ download' = downloadMarkdown(cards)
    /\ UNCHANGED <<cards, appVars, scene>>

ExecuteDownloadZip ==
    /\ fileName # null
    /\ \E nows \in Clockings(Len(cards)) : download' = downloadAnkiPack(cards, nows)
    /\ UNCHANGED <<cards, appVars, scene>>

\* window.JSZip is not loaded: alert and return
ExecuteDownloadZipNoLibrary ==
    /\ fileName # null
    /\ download' = [kind |-> "alert", content |-> <<"ZIP library not loaded. Please refresh.">>,
                    files |-> <<>>]
    /\ UNCHANGED <<cards, appVars, scene>>

NextExport ==
    \/ HandleDownloadCsv
    \/ ExecuteDownloadText
    \/ ExecuteDownloadMarkdown
    \/ ExecuteDownloadZip
    \/ ExecuteDownloadZipNoLibrary

SpecExport == InitExport /\ [][NextExport]_vars

----------------------------------------------------------------------------
(* Claims about the exports *)

imageCards == {i \in 1..Len(cards) : cards[i].image # undefined}

\* C1: the archive built by downloadAnkiPack for N cards of which M carry a rendered
\* image holds exactly M media files, exactly one import.txt, exactly one README.txt
\* and no other entry.
ArchiveHoldsMediaTsvReadme ==
    download.kind = "zip" =>
        /\ Cardinality(mediaEntries(download.files)) = Cardinality(imageCards)
        /\ Cardinality(entriesNamed(download.files, <<"import.txt">>)) = 1
        /\ Cardinality(entriesNamed(download.files, <<"README.txt">>)) = 1
        /\ Len(download.files) = Cardinality(imageCards) + 2

ArchiveOfMixedCards ==
    /\ download.kind = "zip"
    /\ Cardinality(imageCards) >= 1
    /\ \E i \in 1..Len(cards) : cards[i].image = undefined

\* C2: the media file names generated for the cards of one archive are pairwise
\* distinct, and every file name referenced by an image tag of import.txt is the name
\* of a media file of the archive.
MediaNamesDistinctAndPresent ==
    download.kind = "zip" =>
        LET refs == imgRefs(importTxt(download.files))
        IN /\ Len(refs) = Cardinality(imageCards)
           /\ \A i, j \in 1..Len(refs) : i # j => refs[i] # refs[j]
           /\ \A i \in 1..Len(refs) :
                 \E k \in mediaEntries(download.files) : download.files[k].name = refs[i]

ArchiveOfTwoImageCards ==
    /\ download.kind = "zip"
    /\ Cardinality(imageCards) >= 2
    /\ Len(imgRefs(importTxt(download.files))) >= 2

tsvOf(d) == IF d.kind = "zip" THEN importTxt(d.files) ELSE d.content

\* C3: whatever tabs or newlines occur in the front, back or tags of the cards, the TSV
\* of downloadMobileText and the import.txt of downloadAnkiPack hold exactly one
\* record per card, each with exactly two tab characters.
TsvHasThreeColumnsPerCard ==
    download.kind \in {"text", "zip"} =>
        LET records == tsvRecords(tsvOf(download))
        IN /\ Len(records) = Len(cards)
           /\ \A r \in 1..Len(records) : count(records[r], TAB) = 2

\* C4: reading the output of downloadAnkiCsv after the byte-order mark with the
\* standard CSV rules gives one record per card whose fields are the card's front,
\* back and space-joined tags.
CsvRoundTrip ==
    download.kind = "csv" =>
        /\ Head(download.content) = BOM
        /\ csvRecords(Tail(download.content))
              = [i \in 1..Len(cards) |->
                    <<cards[i].front, cards[i].back, join(cards[i].tags, <<SPACE>>)>>]

special(text) == \E k \in 1..Len(text) : text[k] \in {QUOTE, COMMA, LF}

CsvOfSpecialFields ==
    /\ download.kind = "csv"
    /\ Len(cards) = 2
    /\ \E k \in 1..Len(cards[1].front) : cards[1].front[k] = QUOTE
    /\ special(cards[2].back) \/ special(join(cards[2].tags, <<SPACE>>))

\* C17: every encoding is a function of the card set: exporting the same card set with
\* the same source file name again in the same format gives the same content, the
\* media file names and the TSV of the archive included.
ExportIsFunctionOfCards ==
    [][(download.kind # "none" /\ download'.kind = download.kind
          /\ cards' = cards /\ fileName' = fileName)
       => download' = download]_vars

RECURSIVE tagsLines(_)
\* the rest of every line that starts the tags of a block, up to the end of the line
tagsLines(text) ==
    IF text = <<>> THEN <<>>
    ELSE IF Head(text) = "*Tags: "
         THEN LET rest == Tail(text)
                  end == CHOOSE k \in 1..(Len(rest) + 1) :
                            /\ k = Len(rest) + 1 \/ rest[k] = LF
                            /\ \A m \in 1..(k - 1) : rest[m] # LF
              IN <<SubSeq(rest, 1, end - 1)>> \o tagsLines(SubSeq(rest, end, Len(rest)))
         ELSE tagsLines(Tail(text))

\* the number of space-separated tokens of line that start with '#'
hashTokens(line) ==
    LET tokens == split(line, SPACE)
    IN Cardinality({k \in 1..Len(tokens) : tokens[k] # <<>> /\ tokens[k][1] = "#"})

\* C19: in the Markdown export the tags line of every card holds as many '#'-prefixed
\* tokens as the card has tags, also for a card with an empty tag list.
MarkdownListsEachTag ==
    download.kind = "markdown" =>
        LET lines == tagsLines(download.content)
        IN /\ Len(lines) = Len(cards)
           /\ \A i \in 1..Len(lines) : hashTokens(lines[i]) = Len(cards[i].tags)

\* the image reference that downloadAnkiPack appends to a front for the file name
mediaRef(name) == <<"<br>", "<br>", IMG_OPEN>> \o name \o <<IMG_CLOSE>>

\* C25: the TSV inside the archive has the encoding of the mobile TSV: for a card set
\* without rendered images import.txt is the output of downloadMobileText, and the
\* record of a card with an image differs from its mobile record only by the image
\* reference appended to the front field.
ArchiveTsvIsMobileTsv ==
    download.kind = "zip" =>
        /\ imageCards = {} => importTxt(download.files) = downloadMobileText(cards).content
        /\ \E names \in [1..Len(cards) -> {download.files[k].name : k \in 1..Len(download.files)}] :
              importTxt(download.files)
                = join([i \in 1..Len(cards) |->
                          LET row == mobileRow(cards[i], i - 1)
                              front == Len(formatFieldForAnki(cards[i].front))
                          IN IF cards[i].image = undefined THEN row
                             ELSE SubSeq(row, 1, front) \o mediaRef(names[i])
                                    \o SubSeq(row, front + 1, Len(row))],
                       <<LF>>)

ArchiveOfFormattedFields ==
    /\ download.kind = "zip"
    /\ \E i, j \in 1..Len(cards) :
          /\ cards[i].image # undefined
          /\ cards[j].image = undefined
          /\ \E k \in 1..Len(cards[j].front) : cards[j].front[k] \in {TAB, LF}

----------------------------------------------------------------------------
(* Specification of the renderer: one call of cropAndAnnotateImage on any input *)

\* coordinates in thousandths: the fractions 0, 0.001, k/Grid, and the same numbers
\* taken as per-mille values 0, 1, 1000k/Grid
Fractions == {0, 1} \cup {(k * 1000) \div Grid : k \in 0..Grid}
Coords == Fractions \cup {1000 * v : v \in Fractions}

\* the example of the design: label [100,100,200,200], structure [400,400,450,450]
ExampleLabel == <<100000, 100000, 200000, 200000>>
ExampleStruct == <<400000, 400000, 450000, 450000>>

\* boxes [ymin, xmin, ymax, xmax] with min <= max on both axes
Boxes == {b \in Coords \X Coords \X Coords \X Coords : b[1] <= b[3] /\ b[2] <= b[4]}

\* boxes with components below zero: -2 and -0.5 beside 500 and 0.5
NegativeBoxes == {<<-2000, -2000, 500000, 500000>>, <<-500, -500, 500, 500>>}

LabelBoxes == Boxes \cup {ExampleLabel, noBox} \cup NegativeBoxes
StructBoxes == {noBox, ExampleStruct, <<0, 0, 1000, 1000>>, <<500000, 500000, 500000, 500000>>}

Rasters ==
    {[id |-> "orig", valid |-> TRUE, width |-> 1000, height |-> 1000],
     [id |-> "orig", valid |-> TRUE, width |-> 1300, height |-> 1201],
     [id |-> "orig", valid |-> TRUE, width |-> 2400, height |-> 1200],
     [id |-> "orig", valid |-> TRUE, width |-> 600, height |-> 800],
     [id |-> "orig", valid |-> FALSE, width |-> 0, height |-> 0]}

InitRender ==
    /\ scene \in [kind : {"call"}, img : Rasters, boundingBox : LabelBoxes,
                  structureBoundingBox : StructBoxes, cleanPlateMimeType : {JPEG},
                  cardIndex : 1..MaxCards, result : {pending}]
    /\ cards = <<>>
    /\ status = "PROCESSING_IMAGES"
    /\ error = null
    /\ fileName = [stem |-> "figure", ext |-> ".png"]
    /\ fileData = null
    /\ analysis = null
    /\ job = idleJob
    /\ download = noDownload
    /\ env = [apiKey |-> TRUE]

settle(sc, ctx) ==
    [sc EXCEPT !.result = cropAndAnnotateImage(sc.img, sc.boundingBox, sc.cleanPlateMimeType,
                                               sc.cardIndex, sc.structureBoundingBox, ctx)]

\* img.onload with a 2d context: the promise resolves with the data URL
ImgOnLoad ==
    /\ scene.kind = "call" /\ scene.result = pending
    /\ scene.img.valid
    /\ scene' = settle(scene, TRUE)
    /\ UNCHANGED <<cards, appVars, download>>

\* img.onload without a 2d context: the promise rejects
ImgOnLoadNoContext ==
    /\ scene.kind = "call" /\ scene.result = pending
    /\ scene.img.valid
    /\ scene' = settle(scene, FALSE)
    /\ UNCHANGED <<cards, appVars, download>>

\* img.onerror: the promise rejects
ImgOnError ==
    /\ scene.kind = "call" /\ scene.result = pending
    /\ ~scene.img.valid
    /\ scene' = settle(scene, TRUE)
    /\ UNCHANGED <<cards, appVars, download>>

NextRender == ImgOnLoad \/ ImgOnLoadNoContext \/ ImgOnError

SpecRender == InitRender /\ [][NextRender]_vars

----------------------------------------------------------------------------
(* Claims about the renderer *)

rendered == scene.kind = "call" /\ scene.result.kind = "dataurl"

targetOf(img) == resize(img.width, img.height, MAX_DIMENSION)
labelRectOf(sc) == getRect(sc.boundingBox, targetOf(sc.img)[1], targetOf(sc.img)[2])
structRectOf(sc) == getRect(sc.structureBoundingBox, targetOf(sc.img)[1], targetOf(sc.img)[2])

allWithin(box, hi) == \A i \in 1..4 : 0 <= box[i] /\ box[i] <= hi

\* C6: for a box with min <= max per axis whose components all lie in [0,1] or all lie
\* in [0,1000], the rectangle of getRect lies within the canvas allocated after the
\* resize: x >= 0, y >= 0, x + w <= canvas width, y + h <= canvas height.
RectWithinCanvas ==
    (/\ rendered
     /\ scene.boundingBox # noBox
     /\ allWithin(scene.boundingBox, 1000) \/ allWithin(scene.boundingBox, 1000000))
    => LET r == labelRectOf(scene)
       IN /\ r.x >= 0 /\ r.y >= 0
          /\ r.x + r.w <= scene.result.data.width
          /\ r.y + r.h <= scene.result.data.height

\* C7: for every box with min <= max per axis getRect returns w >= 1 and h >= 1, also
\* for a degenerate box.
RectHasExtent ==
    (rendered /\ scene.boundingBox # noBox)
    => (labelRectOf(scene).w >= 1 /\ labelRectOf(scene).h >= 1)

perMille(box) ==
    /\ allWithin(box, 1000000)
    /\ \E i \in 1..4 : box[i] > 1000
    /\ \A i \in 1..4 : box[i] % 1000 = 0

asFraction(box) == [i \in 1..4 |-> box[i] \div 1000]

\* C8: for a self-consistent per-mille box getRect returns the rectangle it returns
\* for the fractional box with all four components divided by 1000.
PerMilleBoxAsFractionBox ==
    (rendered /\ scene.boundingBox # noBox /\ perMille(scene.boundingBox))
    => labelRectOf(scene)
         = getRect(asFraction(scene.boundingBox), targetOf(scene.img)[1], targetOf(scene.img)[2])

\* the point in half pixels lies in the middle of the rectangle
inMiddle(point, rect) ==
    /\ point[1] - 2 * rect.x = 2 * (rect.x + rect.w) - point[1]
    /\ point[2] - 2 * rect.y = 2 * (rect.y + rect.h) - point[2]

isExample(sc) ==
    /\ sc.boundingBox = ExampleLabel /\ sc.structureBoundingBox = ExampleStruct
    /\ sc.img.width = 1000 /\ sc.img.height = 1000 /\ sc.cardIndex = 1

\* C9: with a label box and a structure box the pointer line runs from the center of
\* the label rectangle to the center of the structure rectangle, the dot is centered on
\* the structure rectangle and the badge with the card index on the label rectangle;
\* in the example: line (150,150) - (425,425), dot at (425,425), badge "1" at (150,150).
PointerAndBadgeCentered ==
    (/\ rendered
     /\ scene.boundingBox # noBox
     /\ scene.structureBoundingBox # noBox)
    => LET d == scene.result.data
       IN /\ inMiddle(d.line.from, labelRectOf(scene))
          /\ inMiddle(d.line.to, structRectOf(scene))
          /\ inMiddle(d.dot.center, structRectOf(scene))
          /\ inMiddle(d.badge.center, labelRectOf(scene))
          /\ d.badge.text = ToString(scene.cardIndex)
          /\ isExample(scene) =>
                /\ d.line.from = <<300, 300>> /\ d.line.to = <<850, 850>>
                /\ d.dot.center = <<850, 850>>
                /\ d.badge.center = <<300, 300>> /\ d.badge.text = "1"

ExampleRendered == rendered /\ isExample(scene)

\* C20: invoked without a label box, cropAndAnnotateImage completes and draws no
\* marker (no pointer line, no dot, no badge), also when a structure box is supplied:
\* the output is the resized base raster only.
NoMarkerWithoutLabelBox ==
    /\ [](rendered /\ scene.boundingBox = noBox =>
            LET d == scene.result.data
            IN /\ d.line = undefined /\ d.dot = undefined /\ d.badge = undefined
               /\ d.base = scene.img.id
               /\ d.width = canvasSize(targetOf(scene.img)[1])
               /\ d.height = canvasSize(targetOf(scene.img)[2]))
    /\ [][(ImgOnLoad /\ scene.boundingBox = noBox) => scene'.result.kind = "dataurl"]_vars

StructureBoxWithoutLabelBox ==
    /\ rendered
    /\ scene.boundingBox = noBox
    /\ scene.structureBoundingBox = ExampleStruct

abs(v) == IF v < 0 THEN -v ELSE v

\* a component whose magnitude exceeds 1 divided by 1000, any other unchanged
byMagnitude(v) == IF abs(v) > 1000 THEN v \div 1000 ELSE v

\* C22: getRect normalizes each of the four components on its own: a component whose
\* magnitude exceeds 1 is divided by 1000 and a component of magnitude at most 1 is
\* used as a fraction unchanged, for negative components as for positive ones.
NormalizesByMagnitude ==
    (rendered /\ scene.boundingBox # noBox)
    => labelRectOf(scene)
         = getRect([i \in 1..4 |-> byMagnitude(scene.boundingBox[i])],
                   targetOf(scene.img)[1], targetOf(scene.img)[2])

----------------------------------------------------------------------------
(* src/utils/imageProcessing.ts: ingestion *)

MAX_SIZE == 2500

\* String.prototype.toLowerCase on the tokens that occur
toLowerCase(token) ==
    CASE token = ".PDF" -> ".pdf"
      [] token = "IMAGE/" -> "image/"
      [] token = "PNG" -> "png"
      [] OTHER -> token

\* the bytes of a PDF, which do not decode as an image
pdfBytes == [id |-> "pdf", valid |-> FALSE, width |-> 0, height |-> 0]

\* img.onerror resolves with an empty raster
processInputFile_resolvesOnError(file, reads, ctx) ==
    IF file.type = PDF \/ toLowerCase(file.name.ext) = ".pdf"
    THEN IF ~reads \/ file.empty THEN rejected
         ELSE [kind |-> "resolved", base64 |-> pdfBytes, mimeType |-> PDF]
    ELSE IF ~reads \/ ~ctx THEN rejected
         ELSE [kind |-> "resolved",
               base64 |-> [id |-> "orig", valid |-> file.raster.valid, width |-> 0, height |-> 0],
               mimeType |-> JPEG]

\* file: [name: [stem, ext], type, empty, raster]; reads: whether the
\* FileReader succeeds; ctx: whether canvas.getContext('2d') returned a context.
processInputFile(file, reads, ctx) ==
    IF file.type = PDF \/ toLowerCase(file.name.ext) = ".pdf"
    THEN IF ~reads \/ file.empty THEN rejected
         ELSE [kind |-> "resolved", base64 |-> pdfBytes, mimeType |-> PDF]
    ELSE IF ~reads \/ ~file.raster.valid \/ ~ctx THEN rejected
         ELSE LET target == resize(file.raster.width, file.raster.height, MAX_SIZE)
              IN [kind |-> "resolved",
                  base64 |-> [id |-> "orig", valid |-> TRUE,
                              width |-> canvasSize(target[1]),
                              height |-> canvasSize(target[2])],
                  mimeType |-> JPEG]

----------------------------------------------------------------------------
(* Specification of the resize: any image size, at ingestion and at annotation *)

\* widths and heights in pixels
Dims == {600, 800, 1000, 1200, 1201, 1300, 2129, 2191, 2400, 2500, 3000, 4236, 5000}

InitResize ==
    /\ scene \in [kind : {"resize"}, width : Dims, height : Dims,
                  maxDim : {MAX_SIZE, MAX_DIMENSION}, result : {pending}]
    /\ cards = <<>>
    /\ status = "READING_FILE"
    /\ error = null
    /\ fileName = [stem |-> "figure", ext |-> ".png"]
    /\ fileData = null
    /\ analysis = null
    /\ job = idleJob
    /\ download = noDownload
    /\ env = [apiKey |-> TRUE]

\* img.onload up to the assignment of canvas.width and canvas.height
Resize ==
    /\ scene.kind = "resize" /\ scene.result = pending
    /\ LET target == resize(scene.width, scene.height, scene.maxDim)
       IN scene' = [scene EXCEPT !.result =
                       [kind |-> "resized", target |-> target,
                        canvas |-> <<canvasSize(target[1]), canvasSize(target[2])>>]]
    /\ UNCHANGED <<cards, appVars, download>>

SpecResize == InitResize /\ [][Resize]_vars

\* C23: resizing with bound B (2500 at ingestion, 1200 at annotation) keeps an image
\* whose width and height are both at most B; any other has both dimensions
\* multiplied by min(B / width, B / height), so that both are at most B, the larger
\* one equals B and the ratio of width to height is unchanged.
ResizeScalesBothToBound ==
    (scene.kind = "resize" /\ scene.result.kind = "resized") =>
        LET w == scene.width
            h == scene.height
            B == scene.maxDim
            tw == scene.result.target[1]
            th == scene.result.target[2]
            larger == IF w >= h THEN tw ELSE th
        IN IF w <= B /\ h <= B
           THEN tw = <<w, 1, 0>> /\ th = <<h, 1, 0>>
           ELSE /\ tw[1] <= B * tw[2] /\ th[1] <= B * th[2]
                /\ larger = <<B, 1, 0>>
                /\ tw[3] = 0 /\ th[3] = 0
                /\ Frac(tw[1] * th[2], th[1] * tw[2]) = Frac(w, h)

----------------------------------------------------------------------------
(* src/unnamed/part_001: the collaborators *)

normalizeMimeType(mimeType) ==
    LET lower == <<toLowerCase(mimeType[1]), toLowerCase(mimeType[2])>>
    IN IF lower = JPG \/ lower[2] = "jpeg" THEN JPEG
       ELSE IF lower = PNG THEN PNG
       ELSE IF lower = WEBP THEN WEBP
       ELSE mimeType

defaultAnalysis ==
    [language |-> "English", topic |-> "General Medicine", suggestedCount |-> 30, missing |-> {}]

\* response: what the analysis model answers, [kind: "json" | "noText" | "throws", value]
analyzeDocument(fileBase64, mimeType, response, e) ==
    IF ~e.apiKey THEN rejected                 \* getAiClient throws before the try
    ELSE IF response.kind = "json" THEN [kind |-> "resolved", value |-> response.value]
    ELSE [kind |-> "resolved", value |-> defaultAnalysis]

generateAiCleanPlate_pngFallback(fileBase64, mimeType, response, e) ==
    IF ~e.apiKey THEN rejected
    ELSE IF response.kind = "image"
    THEN [kind |-> "resolved", data |-> response.data, mimeType |-> response.mimeType]
    ELSE [kind |-> "resolved", data |-> fileBase64, mimeType |-> PNG]

\* response: what the image model answers, [kind: "image" | "noImage" | "throws", ...]
generateAiCleanPlate(fileBase64, mimeType, response, e) ==
    IF ~e.apiKey THEN rejected                 \* getAiClient throws before the try
    ELSE IF response.kind = "image"
    THEN [kind |-> "resolved", data |-> response.data, mimeType |-> response.mimeType]
    ELSE [kind |-> "resolved", data |-> fileBase64, mimeType |-> normalizeMimeType(mimeType)]

\* a text field read from a key the JSON object lacks
absent == <<"undefined">>

\* response: what the generation model answers, [kind: "json" | "noText" | "unparsable"
\* | "throws", hasList, flashcards]: hasList tells whether the JSON object has the key
\* flashcards, and lacks names the keys a card of the list has not; now: the reading
\* of Date.now()
generateFlashcardsFromDocument(fileBase64, mimeType, response, now, e) ==
    IF ~e.apiKey \/ response.kind # "json" THEN rejected
    ELSE LET rawCards == IF response.hasList THEN response.flashcards ELSE <<>>
         IN [kind |-> "resolved",
             cards |-> [i \in 1..Len(rawCards) |->
                          [id |-> cardId(now, i - 1),
                           front |-> IF "front" \in rawCards[i].lacks
                                     THEN absent ELSE rawCards[i].front,
                           back |-> IF "back" \in rawCards[i].lacks
                                    THEN absent ELSE rawCards[i].back,
                           tags |-> IF "tags" \in rawCards[i].lacks
                                    THEN <<>> ELSE rawCards[i].tags,
                           boundingBox |-> rawCards[i].boundingBox,
                           structureBoundingBox |-> rawCards[i].structureBoundingBox,
                           image |-> undefined]]]

----------------------------------------------------------------------------
(* Inputs of a job *)

Files ==
    {[name |-> [stem |-> "figure", ext |-> ".png"], type |-> PNG, empty |-> FALSE,
      raster |-> [id |-> "upload", valid |-> TRUE, width |-> 1000, height |-> 1000]],
     [name |-> [stem |-> "broken", ext |-> ".png"], type |-> PNG, empty |-> FALSE,
      raster |-> [id |-> "upload", valid |-> FALSE, width |-> 0, height |-> 0]],
     [name |-> [stem |-> "slides", ext |-> ".pdf"], type |-> PDF, empty |-> FALSE,
      raster |-> [id |-> "upload", valid |-> FALSE, width |-> 0, height |-> 0]],
     [name |-> [stem |-> "notes", ext |-> ".txt"], type |-> TEXT_PLAIN, empty |-> FALSE,
      raster |-> [id |-> "upload", valid |-> FALSE, width |-> 0, height |-> 0]]}

AnalysisResponses ==
    {[kind |-> "json", value |-> [language |-> "English", topic |-> "Anatomy",
                                  suggestedCount |-> 10, missing |-> {}]],
     [kind |-> "json", value |-> [language |-> "English", topic |-> "Anatomy",
                                  suggestedCount |-> 10, missing |-> {"topic"}]],
     [kind |-> "noText", value |-> null],
     [kind |-> "throws", value |-> null]}

\* card drafts of the generation model: with both boxes, with a label box, without boxes
Drafts ==
    {[front |-> <<"Structure #?">>, back |-> <<"Thalamus">>, tags |-> <<<<"t">>>>,
      boundingBox |-> b[1], structureBoundingBox |-> b[2], lacks |-> {}]
        : b \in {<<ExampleLabel, ExampleStruct>>, <<ExampleLabel, noBox>>, <<noBox, noBox>>}}

\* card objects of the answer that lack keys of the Flashcard draft
IncompleteDrafts ==
    {[front |-> <<>>, back |-> <<>>, tags |-> <<>>,
      boundingBox |-> noBox, structureBoundingBox |-> noBox, lacks |-> l]
        : l \in {{"front", "back"}, {"tags"}}}

\* a list that ends with an incomplete card, alone or after a complete one
IncompleteLists ==
    {<<d>> : d \in IncompleteDrafts}
    \cup {<<c, d>> : c \in {x \in Drafts : x.boundingBox = noBox}, d \in IncompleteDrafts}

GenerationResponses ==
    {[kind |-> "json", hasList |-> TRUE, flashcards |-> ds]
        : ds \in SeqsUpTo(Drafts, MaxCards) \cup IncompleteLists}
    \cup {[kind |-> k, hasList |-> FALSE, flashcards |-> <<>>]
             : k \in {"json", "noText", "unparsable", "throws"}}

CleanPlateResponses ==
    {[kind |-> "image", mimeType |-> PNG,
      data |-> [id |-> "clean", valid |-> TRUE, width |-> 1000, height |-> 1000]],
     [kind |-> "image", mimeType |-> PNG,
      data |-> [id |-> "clean", valid |-> FALSE, width |-> 0, height |-> 0]],
     [kind |-> "noImage", mimeType |-> PNG, data |-> null],
     [kind |-> "throws", mimeType |-> PNG, data |-> null]}

----------------------------------------------------------------------------
(* src/App.tsx: the application *)

Init ==
    /\ cards = <<>>
    /\ status = "IDLE"
    /\ error = null
    /\ fileName = null
    /\ fileData = null
    /\ analysis = null
    /\ job = idleJob
    /\ download = noDownload
    /\ scene = noScene
    /\ env \in [apiKey : BOOLEAN]

\* handleFileSelected up to its first await; FileUpload is rendered when status is IDLE
HandleFileSelected ==
    /\ status = "IDLE"
    /\ \E file \in Files :
          /\ fileName' = file.name
          /\ job' = [idleJob EXCEPT !.pc = "reading", !.file = file]
    /\ status' = "READING_FILE"
    /\ error' = null
    /\ cards' = <<>>
    /\ analysis' = null
    /\ UNCHANGED <<fileData, download, scene, env>>

\* processInputFile settles: continue to the analysis, or the outer catch
ProcessInputFileSettles ==
    /\ job.pc = "reading"
    /\ \E reads \in BOOLEAN, ctx \in BOOLEAN :
          LET r == processInputFile(job.file, reads, ctx)
          IN IF r.kind = "rejected"
             THEN /\ error' = message("Failed to process file. Please ensure it is a valid PDF or Image.")
                  /\ status' = "ERROR"
                  /\ job' = [job EXCEPT !.pc = "idle"]
                  /\ UNCHANGED fileData
             ELSE /\ fileData' = [base64 |-> r.base64, mimeType |-> r.mimeType]
                  /\ status' = "ANALYZING"
                  /\ job' = [job EXCEPT !.pc = "analyzing",
                                        !.data = [base64 |-> r.base64, mimeType |-> r.mimeType]]
                  /\ UNCHANGED error
    /\ UNCHANGED <<cards, fileName, analysis, download, scene, env>>

\* how the analysis request ended: the model answered with every required field
\* ("complete"), with a field missing ("lacksField"), or the request failed ("failed")
analysisOutcomeOf(response, e) ==
    IF ~e.apiKey \/ response.kind # "json" THEN "failed"
    ELSE IF response.value.missing # {} THEN "lacksField"
    ELSE "complete"

\* the inner catch reports the error but the review is shown all the same
AnalyzeDocumentSettles_reviewAfterCatch ==
    /\ job.pc = "analyzing"
    /\ \E response \in AnalysisResponses :
          /\ LET r == analyzeDocument(job.data.base64, job.data.mimeType, response, env)
             IN IF r.kind = "rejected"
                THEN /\ error' = message("Could not analyze document structure. Please try again.")
                     /\ status' = "REVIEW_CONFIG"
                     /\ UNCHANGED analysis
                ELSE /\ analysis' = r.value
                     /\ status' = "REVIEW_CONFIG"
                     /\ UNCHANGED error
          /\ job' = [job EXCEPT !.pc = "idle",
                                !.analysisOutcome = analysisOutcomeOf(response, env)]
    /\ UNCHANGED <<cards, fileName, fileData, download, scene, env>>

\* analyzeDocument settles: REVIEW_CONFIG, or the inner catch
AnalyzeDocumentSettles ==
    /\ job.pc = "analyzing"
    /\ \E response \in AnalysisResponses :
          /\ LET r == analyzeDocument(job.data.base64, job.data.mimeType, response, env)
             IN IF r.kind = "rejected"
                THEN /\ error' = message("Could not analyze document structure. Please try again.")
                     /\ status' = "ERROR"
                     /\ UNCHANGED analysis
                ELSE /\ analysis' = r.value
                     /\ status' = "REVIEW_CONFIG"
                     /\ UNCHANGED error
          /\ job' = [job EXCEPT !.pc = "idle",
                                !.analysisOutcome = analysisOutcomeOf(response, env)]
    /\ UNCHANGED <<cards, fileName, fileData, download, scene, env>>

\* a Cancel button that is also offered on the loading screen of a running job
Cancel_whileLoading ==
    /\ status \in {"REVIEW_CONFIG", "GENERATING", "PROCESSING_IMAGES"} /\ analysis # null
    /\ status' = "IDLE"
    /\ UNCHANGED <<cards, error, fileName, fileData, analysis, job, download, scene, env>>

\* the Cancel button of the configuration panel
Cancel ==
    /\ status = "REVIEW_CONFIG" /\ analysis # null
    /\ status' = "IDLE"
    /\ UNCHANGED <<cards, error, fileName, fileData, analysis, job, download, scene, env>>

\* a button back to the upload that is also offered beside the finished cards
TryAgain_alsoWhenComplete ==
    /\ status \in {"ERROR", "COMPLETE"}
    /\ status' = "IDLE"
    /\ UNCHANGED <<cards, error, fileName, fileData, analysis, job, download, scene, env>>

\* the Try Again button of the error panel
TryAgain ==
    /\ status = "ERROR"
    /\ status' = "IDLE"
    /\ UNCHANGED <<cards, error, fileName, fileData, analysis, job, download, scene, env>>

\* the request is sent again when it was sent
request_twice(calls, name) == calls \o <<name, name>>

\* calls: the requests handleGenerate has made to its collaborators, in order
request(calls, name) == Append(calls, name)

\* handleGenerate up to its first await; the button is rendered in REVIEW_CONFIG
HandleGenerate ==
    /\ status = "REVIEW_CONFIG" /\ analysis # null
    /\ fileData # null
    /\ status' = "GENERATING"
    /\ job' = [idleJob EXCEPT !.pc = "generating", !.data = fileData, !.analysis = analysis,
                              !.analysisOutcome = job.analysisOutcome,
                              !.calls = request(<<>>, "generate")]
    /\ UNCHANGED <<cards, error, fileName, fileData, analysis, download, scene, env>>

\* every source is taken for an image
isImage_always(data) == data.mimeType # <<>>

\* fileData.mimeType.startsWith('image/')
isImage(data) == data.mimeType[1] = "image/"

\* generateFlashcardsFromDocument settles
GenerationSettles ==
    /\ job.pc = "generating"
    /\ \E response \in GenerationResponses, now \in 0..MaxTick :
          LET r == generateFlashcardsFromDocument(job.data.base64, job.data.mimeType,
                                                  response, now, env)
          IN IF r.kind = "rejected"
             THEN /\ error' = message("Failed to generate flashcards.")
                  /\ status' = "ERROR"
                  /\ job' = [job EXCEPT !.pc = "idle", !.response = response]
                  /\ UNCHANGED cards
             ELSE IF isImage(job.data)
             THEN /\ status' = "PROCESSING_IMAGES"
                  /\ job' = [job EXCEPT !.pc = "cleaning", !.generatedCards = r.cards,
                                        !.response = response,
                                        !.calls = request(@, "cleanPlate")]
                  /\ UNCHANGED <<cards, error>>
             ELSE /\ cards' = r.cards
                  /\ status' = "COMPLETE"
                  /\ job' = [job EXCEPT !.pc = "idle", !.generatedCards = r.cards,
                                        !.response = response]
                  /\ UNCHANGED error
    /\ UNCHANGED <<fileName, fileData, analysis, download, scene, env>>

\* the call of cropAndAnnotateImage made for generatedCards[index]
annotationCall(card, index, cleanPlateData) ==
    [kind |-> "call", img |-> cleanPlateData.data, boundingBox |-> card.boundingBox,
     cleanPlateMimeType |-> cleanPlateData.mimeType, cardIndex |-> index + 1,
     structureBoundingBox |-> card.structureBoundingBox, result |-> pending]

\* generateAiCleanPlate settles; every annotation task starts
CleanPlateSettles ==
    /\ job.pc = "cleaning"
    /\ \E response \in CleanPlateResponses :
          LET r == generateAiCleanPlate(job.data.base64, job.data.mimeType, response, env)
              cleanPlateData ==
                  IF r.kind = "rejected"
                  THEN [data |-> job.data.base64, mimeType |-> job.data.mimeType]
                  ELSE [data |-> r.data, mimeType |-> r.mimeType]
          IN job' = [job EXCEPT
                        !.pc = "annotating",
                        !.cleanOutcome = IF env.apiKey THEN response.kind ELSE "throws",
                        !.cleanPlateData = cleanPlateData,
                        !.calls = @ \o [i \in 1..Len(job.generatedCards) |-> "annotate"],
                        !.tasks = [i \in 1..Len(job.generatedCards) |->
                                      annotationCall(job.generatedCards[i], i - 1, cleanPlateData)]]
    /\ UNCHANGED <<cards, status, error, fileName, fileData, analysis, download, scene, env>>

\* img.onload or img.onerror of one annotation task
TaskSettles ==
    /\ job.pc = "annotating"
    /\ \E i \in 1..Len(job.tasks), ctx \in BOOLEAN :
          /\ job.tasks[i].result = pending
          /\ job' = [job EXCEPT !.tasks[i] = settle(job.tasks[i], ctx),
                                !.order = Append(@, i)]
    /\ UNCHANGED <<cards, status, error, fileName, fileData, analysis, download, scene, env>>

\* the catch branch returns the card with the rewritten front
processedCard_alwaysRewrites(card, index, task) ==
    [card EXCEPT !.front = <<"Identify structure #", ToString(index + 1), ".">>]

\* what the callback of generatedCards.map returns for a settled task
processedCard(card, index, task) ==
    IF task.result.kind = "dataurl"
    THEN [card EXCEPT !.front = <<"Identify structure #", ToString(index + 1), ".">>,
                      !.image = task.result]
    ELSE card

\* the values in the order in which their promises settled
promiseAll_settlingOrder(values, order) == [k \in 1..Len(values) |-> values[order[k]]]

\* Promise.all: the values in the order of the promises passed in; order is the order
\* in which they settled
promiseAll(values, order) == [k \in 1..Len(values) |-> values[k]]

\* Promise.all resolves: setCards(processedCards), COMPLETE
PromiseAllSettles ==
    /\ job.pc = "annotating"
    /\ \A i \in 1..Len(job.tasks) : job.tasks[i].result # pending
    /\ cards' = promiseAll([i \in 1..Len(job.generatedCards) |->
                               processedCard(job.generatedCards[i], i - 1, job.tasks[i])],
                           job.order)
    /\ status' = "COMPLETE"
    /\ job' = [job EXCEPT !.pc = "idle"]
    /\ UNCHANGED <<error, fileName, fileData, analysis, download, scene, env>>

Settles ==
    \/ ProcessInputFileSettles
    \/ AnalyzeDocumentSettles
    \/ GenerationSettles
    \/ CleanPlateSettles
    \/ TaskSettles
    \/ PromiseAllSettles

Next ==
    \/ HandleFileSelected
    \/ Cancel
    \/ TryAgain
    \/ HandleGenerate
    \/ Settles

Spec == Init /\ [][Next]_vars

\* every pending promise and image decode settles
FairSpec == Spec /\ WF_vars(Settles)

----------------------------------------------------------------------------
(* Claims about the application *)

\* C5: cards without a label box never acquire a rendered image, also when the source
\* document is an image.
NoImageWithoutLabelBox ==
    \A i \in 1..Len(cards) : cards[i].boundingBox = noBox => cards[i].image = undefined

cleanPlateFailed == job.cleanOutcome \in {"noImage", "throws"}

\* C10: when the clean-plate collaborator throws or returns no image during an image
\* job, every card's annotation is attempted on the original raster with its original
\* media type, and the job reaches COMPLETE and never ERROR.
CleanPlateFailureIsNotFatal ==
    /\ [](cleanPlateFailed =>
            /\ status \in {"PROCESSING_IMAGES", "COMPLETE"}
            /\ Len(job.tasks) = Len(job.generatedCards)
            /\ \A i \in 1..Len(job.tasks) :
                  /\ job.tasks[i].img = fileData.base64
                  /\ job.tasks[i].cleanPlateMimeType = fileData.mimeType
            /\ (job.pc = "idle" => status = "COMPLETE"))
    /\ (cleanPlateFailed ~> status = "COMPLETE")

CleanPlateFailedJobComplete ==
    /\ cleanPlateFailed
    /\ status = "COMPLETE"
    /\ Len(cards) = MaxCards
    /\ \E i \in 1..Len(cards) : cards[i].image # undefined

promiseAllResolves == job.pc = "annotating" /\ job'.pc = "idle"

\* the card the callback returns for generated card i when its annotation succeeds
annotated(i) ==
    [job.generatedCards[i] EXCEPT
        !.front = <<"Identify structure #", ToString(i), ".">>,
        !.image = cropAndAnnotateImage(job.cleanPlateData.data,
                                       job.generatedCards[i].boundingBox,
                                       job.cleanPlateData.mimeType, i,
                                       job.generatedCards[i].structureBoundingBox, TRUE)]

\* C11: if the annotation of card i fails, the final card set holds card i exactly as
\* generated (placeholder front, no image), every other card is annotated as if no
\* failure had occurred, and the job reaches COMPLETE, not ERROR.
FailedCardKeptAsGenerated ==
    /\ [](job.pc = "annotating" => status = "PROCESSING_IMAGES")
    /\ [][promiseAllResolves =>
            /\ status' = "COMPLETE" /\ error' = null
            /\ Len(cards') = Len(job.generatedCards)
            /\ \A i \in 1..Len(job.tasks) :
                  IF job.tasks[i].result.kind = "rejected"
                  THEN cards'[i] = job.generatedCards[i]
                  ELSE cards'[i] = annotated(i)]_vars

OneFailedOneAnnotated ==
    /\ status = "COMPLETE" /\ job.pc = "idle"
    /\ \E i, j \in 1..Len(job.tasks) :
          /\ job.tasks[i].result.kind = "rejected"
          /\ cards[i].image = undefined /\ cards[i].front = <<"Structure #?">>
          /\ job.tasks[j].result.kind = "dataurl"
          /\ cards[j].image # undefined

\* C12: whatever the order in which the annotation tasks settle, the final card set
\* has the length and order of the generated card list, position i holds the card
\* derived from generated card i, and the badge drawn for it carries the number i
\* (counting from 1).
ResultsKeepCardOrder ==
    [][promiseAllResolves =>
          /\ Len(cards') = Len(job.generatedCards)
          /\ \A i \in 1..Len(cards') :
                /\ cards'[i].id = job.generatedCards[i].id
                /\ cards'[i].back = job.generatedCards[i].back
                /\ cards'[i].boundingBox = job.generatedCards[i].boundingBox
                /\ cards'[i].image # undefined =>
                      /\ cards'[i].image = job.tasks[i].result
                      /\ cards'[i].front = <<"Identify structure #", ToString(i), ".">>
                      /\ cards'[i].boundingBox # noBox =>
                            cards'[i].image.data.badge.text = ToString(i)]_vars

SettledInReverseOrder ==
    /\ status = "COMPLETE" /\ job.pc = "idle"
    /\ Len(job.order) >= 2 /\ job.order[1] > job.order[2]
    /\ \A i \in 1..Len(cards) : cards[i].image # undefined

\* the answer of the generation model is not a list of complete card drafts
malformed(response) ==
    \/ response.kind \in {"noText", "unparsable", "throws"}
    \/ response.kind = "json" /\ ~response.hasList
    \/ response.kind = "json" /\ \E i \in 1..Len(response.flashcards) :
                                     response.flashcards[i].lacks # {}

\* C13: when the generation collaborator returns malformed or missing data (no text,
\* unparsable JSON, no card list, a card lacking front, back or tags) the job ends in
\* ERROR with an error message and an empty card set, never in COMPLETE.
MalformedGenerationIsFatal ==
    malformed(job.response) =>
        /\ status \in {"ERROR", "IDLE"}
        /\ error # null
        /\ cards = <<>>

analysisFailed == job.analysisOutcome \in {"failed", "lacksField"}

\* C14: when the document analysis fails or its result lacks a required field, status
\* becomes ERROR with an error message, and the job never reaches REVIEW_CONFIG or the
\* generation with that analysis.
FailedAnalysisAborts ==
    analysisFailed =>
        /\ status \in {"ERROR", "IDLE"}
        /\ error # null
        /\ job.pc = "idle"

\* an image file whose bytes do not decode
undecodable(file) ==
    /\ file # null
    /\ file.type # PDF /\ toLowerCase(file.name.ext) # ".pdf"
    /\ ~file.raster.valid

\* C15: when an image file cannot be decoded at ingestion, status becomes ERROR with an
\* error message, no analysis or generation request is made for the file, and no file
\* data is stored for it.
UndecodableImageIsFatal ==
    /\ [](undecodable(job.file) =>
            /\ job.pc \in {"reading", "idle"}
            /\ status \in {"READING_FILE", "ERROR", "IDLE"}
            /\ analysis = null
            /\ job.pc = "idle" => error # null)
    /\ [][(undecodable(job.file) /\ job.pc = "reading" /\ job'.pc # "reading") =>
            /\ status' = "ERROR"
            /\ error' # null
            /\ fileData' = fileData]_vars

UndecodableAfterDecodable ==
    /\ undecodable(job.file)
    /\ status = "ERROR"
    /\ fileData # null

\* C16: within one job status moves only GENERATING -> (PROCESSING_IMAGES) -> COMPLETE
\* or to ERROR: PROCESSING_IMAGES is entered only from GENERATING and only for an image
\* media type, COMPLETE is entered from GENERATING only for a source that is not an
\* image, and for an image source only from PROCESSING_IMAGES.
StatusFollowsJobStages ==
    [][/\ (status = "GENERATING" /\ status' # status) =>
              status' \in {"PROCESSING_IMAGES", "COMPLETE", "ERROR"}
       /\ (status = "PROCESSING_IMAGES" /\ status' # status) =>
              status' \in {"COMPLETE", "ERROR"}
       /\ (status' = "PROCESSING_IMAGES" /\ status # status') =>
              status = "GENERATING" /\ fileData.mimeType[1] = "image/"
       /\ (status' = "COMPLETE" /\ status # status') =>
              \/ status = "GENERATING" /\ fileData.mimeType[1] # "image/"
              \/ status = "PROCESSING_IMAGES" /\ fileData.mimeType[1] = "image/"
       /\ (status' = "GENERATING" /\ status # status') => status = "REVIEW_CONFIG"
      ]_vars

ImageJobCompleteAfterProcessing ==
    /\ status = "COMPLETE"
    /\ fileData.mimeType = JPEG
    /\ job.tasks # <<>>

\* C21: provided every collaborator call and image decode settles, a job that enters
\* GENERATING reaches COMPLETE or ERROR; status does not stay in GENERATING or
\* PROCESSING_IMAGES, and while it is in one of them no user action moves it to IDLE.
JobEndsAndCannotBeCancelled ==
    /\ (status = "GENERATING" ~> status \in {"COMPLETE", "ERROR"})
    /\ (status = "PROCESSING_IMAGES" ~> status \in {"COMPLETE", "ERROR"})
    /\ [][(status \in {"GENERATING", "PROCESSING_IMAGES"}) =>
            (/\ status' \in {"GENERATING", "PROCESSING_IMAGES", "COMPLETE", "ERROR"}
             /\ (status' # status => job' # job))]_vars

GeneratedJobComplete ==
    /\ status = "COMPLETE"
    /\ job.response.kind = "json"
    /\ job.generatedCards # <<>>

\* C24: in every image job the generation collaborator is requested exactly once, the
\* clean-plate collaborator exactly once, after the generation has returned and before
\* any annotation task starts, and no request is repeated after a failure.
CollaboratorsRequestedOnce ==
    /\ count(job.calls, "generate") <= 1 /\ count(job.calls, "cleanPlate") <= 1
    /\ Len(job.calls) >= 1 => job.calls[1] = "generate"
    /\ Len(job.calls) >= 2 => job.calls[2] = "cleanPlate" /\ job.response.kind = "json"
    /\ \A k \in 3..Len(job.calls) : job.calls[k] = "annotate"
    /\ job.pc = "generating" => job.calls = <<"generate">>
    /\ job.pc = "cleaning" => job.calls = <<"generate", "cleanPlate">>
    /\ job.tasks # <<>> =>
          /\ Len(job.calls) = 2 + Len(job.tasks)
          /\ count(job.calls, "cleanPlate") = 1
    /\ job.response.kind \in {"noText", "unparsable", "throws"} => job.calls = <<"generate">>
    /\ (status = "COMPLETE" /\ isImage(job.data)) =>
          SubSeq(job.calls, 1, 2) = <<"generate", "cleanPlate">>

CleanPlateFailedOnce ==
    /\ status = "COMPLETE"
    /\ job.cleanOutcome = "throws"
    /\ Len(job.calls) > 2

\* C26: text submitted through the paste mode, wrapped as the file notes.txt of type
\* text/plain, is treated as text: selecting it moves the job from READING_FILE to
\* ANALYZING, not to ERROR.
PastedTextIsAnalyzed ==
    [][(job.pc = "reading" /\ job.file.type = TEXT_PLAIN /\ job'.pc # "reading")
       => status' = "ANALYZING"]_vars

\* C27: in every reachable state in which status is IDLE, READING_FILE, ANALYZING,
\* REVIEW_CONFIG, GENERATING or ERROR the card set is empty, so that no export can
\* start from the cards of an earlier or failed job.
CardsOnlyWhenComplete ==
    status \in {"IDLE", "READING_FILE", "ANALYZING", "REVIEW_CONFIG", "GENERATING", "ERROR"}
        => cards = <<>>

FailedJobHasNoCards ==
    /\ status = "ERROR"
    /\ job.response.kind = "throws"
    /\ cards = <<>>

\* C28: whenever status is REVIEW_CONFIG the stored file data and the stored analysis
\* are non-null and were produced from the most recently selected file, the one named
\* by fileName, also after an earlier job was cancelled or ended in ERROR; so
\* handleGenerate passes its guard and generates from this file's data.
ReviewHoldsSelectedFile ==
    status = "REVIEW_CONFIG" =>
        /\ fileData # null
        /\ analysis # null
        /\ job.file.name = fileName
        /\ \E reads \in BOOLEAN, ctx \in BOOLEAN :
              LET r == processInputFile(job.file, reads, ctx)
              IN /\ r.kind = "resolved"
                 /\ fileData = [base64 |-> r.base64, mimeType |-> r.mimeType]
        /\ \E response \in AnalysisResponses :
              LET a == analyzeDocument(fileData.base64, fileData.mimeType, response, env)
              IN a.kind = "resolved" /\ a.value = analysis
        /\ ENABLED HandleGenerate

ReviewOfSlides ==
    /\ status = "REVIEW_CONFIG"
    /\ fileName = [stem |-> "slides", ext |-> ".pdf"]
    /\ fileData.mimeType = PDF
    /\ analysis = defaultAnalysis

-----------------------------------------------------------------------------
(* Specification of the card editor: CardList calls handleUpdateCard and
   handleDeleteCard on the cards of a finished job *)

\* the card is built anew from its texts
handleUpdateCard_rebuildsCard(prev, id, field, value) ==
    [i \in 1..Len(prev) |->
        IF prev[i].id # id THEN prev[i]
        ELSE LET card == [Flashcard(prev[i].front, prev[i].back, prev[i].tags, undefined)
                             EXCEPT !.id = prev[i].id]
             IN IF field = "tags" THEN [card EXCEPT !.tags = split(value, SPACE)]
                ELSE [card EXCEPT ![field] = value]]

\* the updater handleUpdateCard passes to setCards
handleUpdateCard(prev, id, field, value) ==
    [i \in 1..Len(prev) |->
        IF prev[i].id # id THEN prev[i]
        ELSE IF field = "tags" THEN [prev[i] EXCEPT !.tags = split(value, SPACE)]
        ELSE [prev[i] EXCEPT ![field] = value]]

RECURSIVE handleDeleteCard(_, _)
\* the updater handleDeleteCard passes to setCards
handleDeleteCard(prev, id) ==
    IF prev = <<>> THEN <<>>
    ELSE IF prev[1].id # id THEN <<prev[1]>> \o handleDeleteCard(Tail(prev), id)
    ELSE handleDeleteCard(Tail(prev), id)

\* a card of an image job: both boxes and the rendered image
AnnotatedCard ==
    [Flashcard(<<"Identify structure #", "1", ".">>, <<"Thalamus">>, <<<<"t">>>>, SampleImage)
        EXCEPT !.boundingBox = ExampleLabel, !.structureBoundingBox = ExampleStruct]

\* the cards the editor shows
EditedSets ==
    UNION {{withIds(cs) : cs \in [1..k -> Companions \cup {AnnotatedCard}]} : k \in 0..MaxCards}

\* what the user types into a field of a card
EditValues == SeqsUpTo({"a", SPACE}, MaxLen)

\* the ids CardList can pass, and one no card has
EditIds == {cardId(0, i) : i \in 0..MaxCards}

noCall == [op |-> "none"]

InitEdit ==
    /\ cards \in EditedSets
    /\ status = "COMPLETE"
    /\ error = null
    /\ fileName = [stem |-> "figure", ext |-> ".png"]
    /\ fileData = null
    /\ analysis = null
    /\ job = idleJob
    /\ download = noDownload
    /\ scene = [kind |-> "edit", call |-> noCall]
    /\ env = [apiKey |-> TRUE]

HandleUpdateCard ==
    /\ scene.call = noCall
    /\ \E id \in EditIds, field \in {"front", "back", "tags"}, value \in EditValues :
          /\ cards' = handleUpdateCard(cards, id, field, value)
          /\ scene' = [scene EXCEPT !.call = [op |-> "update", id |-> id,
                                              field |-> field, value |-> value]]
    /\ UNCHANGED <<appVars, download>>

HandleDeleteCard ==
    /\ scene.call = noCall
    /\ \E id \in EditIds :
          /\ cards' = handleDeleteCard(cards, id)
          /\ scene' = [scene EXCEPT !.call = [op |-> "delete", id |-> id]]
    /\ UNCHANGED <<appVars, download>>

NextEdit == HandleUpdateCard \/ HandleDeleteCard

SpecEdit == InitEdit /\ [][NextEdit]_vars

cardFields == {"id", "front", "back", "tags", "boundingBox", "structureBoundingBox", "image"}

\* the positions of the cards that do not carry the id, in ascending order
RECURSIVE kept(_, _, _)
kept(cs, id, from) ==
    IF from > Len(cs) THEN <<>>
    ELSE (IF cs[from].id # id THEN <<from>> ELSE <<>>) \o kept(cs, id, from + 1)

\* C29: handleUpdateCard(id, field, value) changes only the named field of the card
\* with that id and leaves its other fields, all other cards, their number and their
\* order unchanged; handleDeleteCard(id) removes exactly the cards with that id and
\* keeps the others in their order; neither changes status.
CardEditsAreLocal ==
    [][(scene.kind = "edit") =>
        /\ status' = status
        /\ (scene'.call.op = "update") =>
              LET c == scene'.call
              IN /\ Len(cards') = Len(cards)
                 /\ \A i \in 1..Len(cards) :
                       IF cards[i].id = c.id
                       THEN /\ \A f \in cardFields \ {c.field} : cards'[i][f] = cards[i][f]
                            /\ c.field \in {"front", "back"} => cards'[i][c.field] = c.value
                            /\ c.field = "tags" =>
                                  /\ join(cards'[i].tags, <<SPACE>>) = c.value
                                  /\ \A t \in 1..Len(cards'[i].tags) :
                                        count(cards'[i].tags[t], SPACE) = 0
                       ELSE cards'[i] = cards[i]
        /\ (scene'.call.op = "delete") =>
              LET c == scene'.call
                  k == kept(cards, c.id, 1)
              IN /\ Len(cards') = Len(k)
                 /\ \A j \in 1..Len(k) : cards'[j] = cards[k[j]]
                 /\ \A j \in 1..Len(cards') : cards'[j].id # c.id]_vars

AnnotatedCardRetagged ==
    /\ scene.kind = "edit" /\ scene.call.op = "update" /\ scene.call.field = "tags"
    /\ Len(cards) = 2
    /\ \E i \in 1..2 :
          /\ cards[i].id = scene.call.id
          /\ cards[i].image # undefined
          /\ cards[i].boundingBox = ExampleLabel
          /\ Len(cards[i].tags) = 2

\* C30: when an image job reaches COMPLETE, every card that carries a rendered image
\* has the front text "Identify structure #k." where k is the badge number drawn into
\* that image, its 1-based position in generation order, and every card without a
\* rendered image still has its generated front text.
FrontNamesDrawnBadge ==
    (status = "COMPLETE" /\ isImage(job.data)) =>
        /\ Len(cards) = Len(job.generatedCards)
        /\ \A i \in 1..Len(cards) :
              IF cards[i].image # undefined
              THEN /\ cards[i].front = <<"Identify structure #", ToString(i), ".">>
                   /\ cards[i].image.data.badge # undefined
                   /\ cards[i].image.data.badge.text = ToString(i)
              ELSE cards[i].front = job.generatedCards[i].front

====
